---------------------------- MODULE Spec2Model ----------------------------
(***************************************************************************)
(* A model of google_maps_key_tester.py: the command line dispatch         *)
(* (__main__), the endpoint sweep of one key (test_key), the bulk key      *)
(* extraction (extract_keys_from_file) and the bounded thread pool         *)
(* (run_tests).                                                            *)
(*                                                                         *)
(* Strings are sequences of one-character strings, so that the regular     *)
(* expressions, the slices and the sort of the program are computed.       *)
(* Wall-clock measurements (elapsed) and the preview column of the         *)
(* rendered table are not part of the state; rich (Console, Table, track)  *)
(* is taken to render and nothing else. A test_key call of the main thread *)
(* is followed request by request; one of a pool worker is one step from   *)
(* its start to its return.                                                *)
(***************************************************************************)
EXTENDS Integers, Sequences, FiniteSets, TLC

(***************************************************************************)
(* Characters and strings                                                  *)
(***************************************************************************)

\* The printable ASCII characters in code point order, 32 to 126 (the double
\* quote, the backslash and the grave accent stand under their names).
Ascii ==
  << " ", "!", "dquote", "#", "$", "%", "&", "'", "(", ")", "*", "+", ",", "-",
     ".", "/", "0", "1", "2", "3", "4", "5", "6", "7", "8", "9", ":", ";",
     "<", "=", ">", "?", "@", "A", "B", "C", "D", "E", "F", "G", "H", "I",
     "J", "K", "L", "M", "N", "O", "P", "Q", "R", "S", "T", "U", "V", "W",
     "X", "Y", "Z", "[", "backslash", "]", "^", "_", "grave", "a", "b", "c", "d", "e",
     "f", "g", "h", "i", "j", "k", "l", "m", "n", "o", "p", "q", "r", "s",
     "t", "u", "v", "w", "x", "y", "z", "{", "|", "}", "~" >>

Chr(n) == Ascii[n - 31]

\* The code point of a character (newline is 10).
Ord(c) == IF c = "\n" THEN 10 ELSE 31 + (CHOOSE i \in 1..Len(Ascii) : Ascii[i] = c)

\* Python str comparison: code point by code point, a proper prefix first.
RECURSIVE StrLess(_, _)
StrLess(a, b) ==
  IF b = <<>> THEN FALSE
  ELSE IF a = <<>> THEN TRUE
  ELSE IF Head(a) = Head(b) THEN StrLess(Tail(a), Tail(b))
  ELSE Ord(Head(a)) < Ord(Head(b))

\* sorted(S) of a set of strings.
RECURSIVE Sorted(_)
Sorted(S) ==
  IF S = {} THEN <<>>
  ELSE LET m == CHOOSE x \in S : \A y \in S \ {x} : StrLess(x, y)
       IN  <<m>> \o Sorted(S \ {m})

\* set(seq)
ToSet(seq) == {seq[i] : i \in 1..Len(seq)}

RECURSIVE Rep(_, _)
Rep(c, n) == IF n = 0 THEN <<>> ELSE <<c>> \o Rep(c, n - 1)

\* s[:n]
Prefix(s, n) == SubSeq(s, 1, IF Len(s) < n THEN Len(s) ELSE n)

\* s.endswith(suffix)
EndsWith(s, suffix) ==
  /\ Len(s) >= Len(suffix)
  /\ SubSeq(s, Len(s) - Len(suffix) + 1, Len(s)) = suffix

(***************************************************************************)
(* The key pattern AIza[0-9A-Za-z_\-]{35}                                  *)
(***************************************************************************)

KeyPrefix == <<"A", "I", "z", "a">>

KeyTailLen == 35

KeyLen == Len(KeyPrefix) + KeyTailLen

\* The character class [0-9A-Za-z_\-]
KeyAlphabet ==
  {Chr(n) : n \in (48..57) \cup (65..90) \cup (97..122)} \cup {"_", "-"}

\* The pattern matches the text at position i (1-based).
MatchAt(s, i) ==
  /\ i + KeyLen - 1 <= Len(s)
  /\ SubSeq(s, i, i + Len(KeyPrefix) - 1) = KeyPrefix
  /\ \A j \in (i + Len(KeyPrefix))..(i + KeyLen - 1) : s[j] \in KeyAlphabet

\* re.findall(pattern, s): the non-overlapping matches, leftmost first; the
\* scan resumes right after a match, and one character on where none starts.
RECURSIVE FindAllFrom(_, _)
FindAllFrom(s, i) ==
  IF i + KeyLen - 1 > Len(s) THEN <<>>
  ELSE IF MatchAt(s, i)
       THEN <<SubSeq(s, i, i + KeyLen - 1)>> \o FindAllFrom(s, i + KeyLen)
       ELSE FindAllFrom(s, i + 1)

FindAll(s) == FindAllFrom(s, 1)

\* Faulty variant: the matches as found, neither sorted nor made a set.
ExtractUnsorted(text) == FindAll(text)

\* extract_keys_from_file, given the text read: sorted(set(re.findall(...)))
ExtractKeys(text) == Sorted(ToSet(FindAll(text)))

\* re.match(r"^AIza[0-9A-Za-z_\-]{35}$", arg): anchored at the start; $ matches
\* at the end of the string and also just before a newline that ends it.
IsKeyArg(arg) ==
  /\ MatchAt(arg, 1)
  /\ IF Len(arg) = KeyLen + 1 THEN arg[KeyLen + 1] = "\n" ELSE Len(arg) = KeyLen

(***************************************************************************)
(* Bounds of the model                                                     *)
(***************************************************************************)

\* The sweep runs over the first NumEndpoints entries of ENDPOINTS.
NumEndpoints == 3

\* The longest key list handed to run_tests.
MaxKeys == 4

\* The most segments (keys and stretches of noise) a bulk text is made of.
MaxSegments == 3

\* The seconds the wall clock may advance during a run.
MaxClock == 1

(***************************************************************************)
(* The endpoint catalog and one probe                                      *)
(***************************************************************************)

ENDPOINTS ==
  << "PlacesATM", "Geocoding", "ReverseGeocoding", "PlacesNearby",
     "PlacesTextSearch", "PlacesDetails", "Directions", "DistanceMatrix",
     "TimeZone", "Elevation", "StaticMap", "StreetView", "Autocomplete" >>

Catalog == SubSeq(ENDPOINTS, 1, NumEndpoints)

\* The status field is not in the JSON object.
Absent == "<absent>"

\* Values of the top-level status field, as the Maps web services give them.
StatusValues ==
  { "OK", "ZERO_RESULTS", "REQUEST_DENIED", "OVER_QUERY_LIMIT",
    "INVALID_REQUEST", "UNKNOWN_ERROR" }

\* What one HTTP call can come to:
\*   transport    requests.get raises (timeout, connection error)
\*   unparseable  the call returns and r.json() raises: the body is not JSON
\*   non_object   the body is JSON but no object: data.get raises
\*   object       the body is a JSON object, with a status or without
Outcomes ==
  {[kind |-> k, status |-> Absent] : k \in {"transport", "unparseable", "non_object"}}
  \cup {[kind |-> "object", status |-> s] : s \in StatusValues \cup {Absent}}

\* Outcomes the whole program and the pool are exercised with: a call that
\* succeeds and one that fails.
PoolOutcomes ==
  { [kind |-> "object", status |-> "OK"],
    [kind |-> "transport", status |-> Absent] }


\* Faulty variant: a body that cannot be read leaves data empty instead of raising.
RaisesOnTransportOnly(o) == o.kind = "transport"

\* The except branch is taken: some call inside the try block raised.
Raises(o) == o.kind \in {"transport", "unparseable", "non_object"}

\* data.get("status", "ERROR")
StatusOf(o) == IF o.status = Absent THEN "ERROR" ELSE o.status


\* Faulty variant: ZERO_RESULTS is not taken for a success.
ClassifyOkOnly(status) ==
  IF status = "OK" THEN "ENABLED"
  ELSE IF status = "REQUEST_DENIED" THEN "DENIED"
  ELSE IF status = "OVER_QUERY_LIMIT" THEN "RATE LIMITED"
  ELSE "DISABLED"

\* The status column of the rendered table, from the if/elif chain.
Classify(status) ==
  IF status \in {"OK", "ZERO_RESULTS"} THEN "ENABLED"
  ELSE IF status = "REQUEST_DENIED" THEN "DENIED"
  ELSE IF status = "OVER_QUERY_LIMIT" THEN "RATE LIMITED"
  ELSE "DISABLED"

\* The locals of one test_key call: idx counts the catalog entries the loop has
\* been through; calls logs the GET requests issued, each with what it came to.
NewFrame ==
  [ idx |-> 0, enabled_count |-> 0, disabled_count |-> 0,
    results |-> <<>>, table |-> <<>>, calls |-> <<>> ]

\* The try block ran to its end: the row by the status, one of the two counts,
\* and the row of results.
OnResponse(f, key, name, status) ==
  [ f EXCEPT !.table = Append(@, <<name, Classify(status)>>),
             !.enabled_count = IF Classify(status) = "ENABLED" THEN @ + 1 ELSE @,
             !.disabled_count = IF Classify(status) = "ENABLED" THEN @ ELSE @ + 1,
             !.results = Append(@, <<key, name, status>>) ]


\* Faulty variant: the except branch leaves results alone.
OnExceptionOmitsRow(f, key, name) ==
  [ f EXCEPT !.table = Append(@, <<name, "ERROR">>),
             !.disabled_count = @ + 1 ]

\* The except branch: an ERROR row, counted as disabled, and an "ERROR" row of
\* results.
OnException(f, key, name) ==
  [ f EXCEPT !.table = Append(@, <<name, "ERROR">>),
             !.disabled_count = @ + 1,
             !.results = Append(@, <<key, name, "ERROR">>) ]


\* Faulty variant: a failed request is sent a second time.
IssueRetries(f, name, o) ==
  LET call == [name |-> name, kind |-> o.kind, status |-> o.status]
  IN  [ f EXCEPT !.idx = @ + 1,
                 !.calls = IF o.kind = "transport"
                             THEN Append(Append(@, call), call)
                             ELSE Append(@, call) ]

\* requests.get is called once for the entry.
Issue(f, name, o) ==
  [ f EXCEPT !.idx = @ + 1,
             !.calls = Append(@, [name |-> name, kind |-> o.kind, status |-> o.status]) ]

\* One iteration of the for loop of test_key on the outcome o of its call.
LoopBody(f, key, o) ==
  LET name == Catalog[f.idx + 1]
  IN  IF Raises(o)
      THEN OnException(Issue(f, name, o), key, name)
      ELSE OnResponse(Issue(f, name, o), key, name, StatusOf(o))


\* Faulty variant: the comparison admits 0.
VerdictAdmitsZero(enabled_count) == IF enabled_count >= 0 THEN "VALID" ELSE "INVALID"

\* The summary panel: VALID KEY or INVALID KEY (its two counts are those of the
\* locals it is printed from).
Verdict(enabled_count) == IF enabled_count > 0 THEN "VALID" ELSE "INVALID"

Summary(f) == Verdict(f.enabled_count)

\* maps_key_results_{key[:8]}_{timestamp}.csv
CsvName(key, now) == <<Prefix(key, 8), now>>

(***************************************************************************)
(* Command line arguments, keys and file contents                          *)
(***************************************************************************)

Prog == <<"g", "m", "k", "t", ".", "p", "y">>

CsvFlag == <<"-", "-", "c", "s", "v">>

HelpShort == <<"-", "h">>

HelpLong == <<"-", "-", "h", "e", "l", "p">>

TxtSuffix == <<".", "t", "x", "t">>

TxtArg == <<"k", "e", "y", "s">> \o TxtSuffix

OtherArg == <<"k", "e", "y", "s", ".", "m", "d">>

\* The i-th key of the model: AIzaSyD_ and 31 times the i-th capital letter.
Key(i) == KeyPrefix \o <<"S", "y", "D", "_">> \o Rep(Chr(64 + i), KeyTailLen - 4)

\* A key whose 8 first characters differ from those of Key(i).
KeyZ == KeyPrefix \o Rep("z", KeyTailLen)

\* One character short of a key, and one character more than a key.
KeyShort == KeyPrefix \o Rep("S", KeyTailLen - 1)

KeyLong == KeyPrefix \o Rep("S", KeyTailLen + 1)

\* A key and the newline a shell substitution may leave after it.
KeyNl == Key(1) \o <<"\n">>

\* The file named on the command line does not exist.
Missing == <<"<missing>">>

(***************************************************************************)
(* The state                                                               *)
(***************************************************************************)

VARIABLES
  argv,        \* sys.argv: the program name, then the arguments
  segments,    \* the keys and the stretches of noise the file was written from
  disk,        \* the text of the file the argument may name, or Missing
  clock,       \* the wall clock, in seconds
  pc,          \* where the main thread is
  exit_code,   \* the exit code of the process, -1 while it runs
  console,     \* the messages __main__ has printed
  export_csv,  \* the export_csv of __main__
  keys,        \* the keys under test: the argument, or those extracted
  future,      \* per key: the state of its test_key call
  owner,       \* per key: the thread that runs it (0: main, 1..3: the pool), if any
  frame,       \* per key: the locals of its test_key call
  summary,     \* per key: the verdicts of the summary panels printed for it
  csv_writes,  \* per key: the CSV files opened for writing for it
  files,       \* the CSV files on disk: <<name, key whose rows it holds>>
  queue,       \* the work queue of the executor
  yielded      \* the futures as_completed has handed back

vars ==
  << argv, segments, disk, clock, pc, exit_code, console, export_csv, keys, future,
     owner, frame, summary, csv_writes, files, queue, yielded >>

cli == <<argv, segments, disk>>

taskvars == <<future, owner, frame, summary, csv_writes, files>>

\* ThreadPoolExecutor(max_workers=3)
MaxWorkers == 3

Workers == 1..MaxWorkers

MainThread == 0

NoThread == -1

Tasks == 1..Len(keys)

\* The state of the tasks when the key list ks has just been settled.
TasksStart(ks, fut) ==
  /\ keys = ks
  /\ future = [t \in 1..Len(ks) |-> fut]
  /\ owner = [t \in 1..Len(ks) |-> IF fut = "running" THEN MainThread ELSE NoThread]
  /\ frame = [t \in 1..Len(ks) |-> NewFrame]
  /\ summary = [t \in 1..Len(ks) |-> <<>>]
  /\ csv_writes = [t \in 1..Len(ks) |-> 0]

TasksStartNext(ks, fut) ==
  /\ keys' = ks
  /\ future' = [t \in 1..Len(ks) |-> fut]
  /\ owner' = [t \in 1..Len(ks) |-> IF fut = "running" THEN MainThread ELSE NoThread]
  /\ frame' = [t \in 1..Len(ks) |-> NewFrame]
  /\ summary' = [t \in 1..Len(ks) |-> <<>>]
  /\ csv_writes' = [t \in 1..Len(ks) |-> 0]


\* Faulty variant: the flag counts only as the last argument.
WantsCsvLast(av) == av[Len(av)] = CsvFlag

\* "--csv" in sys.argv
WantsCsv(av) == CsvFlag \in ToSet(av)

(***************************************************************************)
(* test_key: the sweep of one key                                          *)
(***************************************************************************)

\* The loop of test_key run on the outcomes os of its calls, one after another.
RECURSIVE Loop(_, _, _)
Loop(f, key, os) ==
  IF os = <<>> THEN f ELSE Loop(LoopBody(f, key, Head(os)), key, Tail(os))

\* The CSV export of task t at time now: the file is opened with mode "w", so a
\* file of the same name is replaced.
CsvExport(t, now) ==
  /\ csv_writes' = [csv_writes EXCEPT ![t] = @ + 1]
  /\ files' = {f \in files : f[1] # CsvName(keys[t], now)}
                 \cup {<<CsvName(keys[t], now), keys[t]>>}

\* After the loop, with the locals f: the table and the summary panel are
\* printed, the CSV file is written when asked for, and test_key returns, which
\* frees its thread.
AfterLoop(t, f) ==
  /\ summary' = [summary EXCEPT ![t] = Append(@, Summary(f))]
  /\ IF export_csv
       THEN CsvExport(t, clock)
       ELSE UNCHANGED <<csv_writes, files>>
  /\ future' = [future EXCEPT ![t] = "finished"]
  /\ owner' = [owner EXCEPT ![t] = NoThread]

\* test_key called by __main__, step by step: the main thread goes through one
\* iteration of the loop; it issues the GET for the next catalog entry, and o
\* is what the call comes to.
Probe(t, o) ==
  /\ future[t] = "running"
  /\ owner[t] = MainThread
  /\ frame[t].idx < Len(Catalog)
  /\ frame' = [frame EXCEPT ![t] = LoopBody(@, keys[t], o)]
  /\ UNCHANGED <<cli, clock, pc, exit_code, console, export_csv, keys, future,
                 owner, summary, csv_writes, files, queue, yielded>>

\* test_key called by __main__: the loop is over, test_key returns and the
\* program runs off its end, which is exit code 0. The frame is left as the
\* call leaves it.
Finish(t) ==
  /\ future[t] = "running"
  /\ owner[t] = MainThread
  /\ frame[t].idx = Len(Catalog)
  /\ AfterLoop(t, frame[t])
  /\ pc' = "exit"
  /\ exit_code' = 0
  /\ UNCHANGED <<cli, clock, console, export_csv, keys, frame, queue, yielded>>

\* test_key called by a pool worker, from its call to its return as one step:
\* the calls of different workers share no locals. os are the outcomes of its
\* GET requests, in catalog order.
Run(t, os) ==
  /\ future[t] = "running"
  /\ owner[t] \in Workers
  /\ AfterLoop(t, Loop(NewFrame, keys[t], os))
  /\ UNCHANGED <<cli, clock, pc, exit_code, console, export_csv, keys, frame,
                 queue, yielded>>

\* A second of wall-clock time passes.
Tick ==
  /\ clock < MaxClock
  /\ pc # "exit"
  /\ clock' = clock + 1
  /\ UNCHANGED <<cli, pc, exit_code, console, export_csv, keys, taskvars,
                 queue, yielded>>

(***************************************************************************)
(* run_tests: the pool of three workers                                    *)
(***************************************************************************)

\* The tasks submitted so far are those with a future.
Submitted(t) == future[t] # "new"


\* Faulty variant: a worker is never taken for busy.
BusyNever(w) == FALSE

Busy(w) == \E t \in Tasks : future[t] = "running" /\ owner[t] = w

\* executor.submit(test_key, key, export_csv) for the next key of the list;
\* after the last one the main thread enters the as_completed loop.
Submit(t) ==
  /\ pc = "submit"
  /\ future[t] = "new"
  /\ \A u \in 1..(t - 1) : Submitted(u)
  /\ future' = [future EXCEPT ![t] = "pending"]
  /\ queue' = Append(queue, t)
  /\ pc' = IF t = Len(keys) THEN "as_completed" ELSE "submit"
  /\ UNCHANGED <<cli, clock, exit_code, console, export_csv, keys, owner,
                 frame, summary, csv_writes, files, yielded>>

\* A worker thread that runs nothing takes the work item at the head of the
\* queue and starts its test_key call.
Take(w) ==
  /\ ~Busy(w)
  /\ queue # <<>>
  /\ future' = [future EXCEPT ![Head(queue)] = "running"]
  /\ owner' = [owner EXCEPT ![Head(queue)] = w]
  /\ queue' = Tail(queue)
  /\ UNCHANGED <<cli, clock, pc, exit_code, console, export_csv, keys, frame,
                 summary, csv_writes, files, yielded>>

Finished == {t \in Tasks : future[t] = "finished"}

\* for _ in as_completed(futures): pass -- one more finished future is handed
\* back.
AsCompleted ==
  /\ pc = "as_completed"
  /\ yielded < Cardinality(Finished)
  /\ yielded' = yielded + 1
  /\ UNCHANGED <<cli, clock, pc, exit_code, console, export_csv, keys,
                 taskvars, queue>>

\* Faulty variant: the loop is left at the first future handed back, and
\* nothing waits for the others.
ReturnsEarly == pc = "as_completed" /\ yielded >= 1

\* The loop has handed back every future: the with block is left
\* (shutdown(wait=True)), run_tests returns and the program runs off its end.
AllYielded == pc = "as_completed" /\ yielded = Len(keys)

Return ==
  /\ AllYielded
  /\ pc' = "exit"
  /\ exit_code' = 0
  /\ UNCHANGED <<cli, clock, console, export_csv, keys, taskvars, queue,
                 yielded>>

(***************************************************************************)
(* __main__: the dispatch on the command line                              *)
(***************************************************************************)

Halt(message, code) ==
  /\ console' = console \cup {message}
  /\ pc' = "exit"
  /\ exit_code' = code
  /\ UNCHANGED <<cli, clock, export_csv, keys, taskvars, queue, yielded>>

IsHelp(av) == IF Len(av) < 2 THEN TRUE ELSE av[2] \in {HelpShort, HelpLong}

IsBulkArg(arg) == EndsWith(arg, TxtSuffix)

\* No argument, or -h or --help first: the usage text, exit code 0.
Help ==
  /\ pc = "start"
  /\ IsHelp(argv)
  /\ Halt("help", 0)

\* The first argument is a key: test_key runs in the main thread.
SingleKey ==
  /\ pc = "start"
  /\ ~IsHelp(argv)
  /\ IsKeyArg(argv[2])
  /\ export_csv' = WantsCsv(argv)
  /\ TasksStartNext(<<argv[2]>>, "running")
  /\ pc' = "test_key"
  /\ UNCHANGED <<cli, clock, exit_code, console, files, queue, yielded>>

\* The first argument ends in .txt and the file cannot be opened: the
\* exception is not caught, the interpreter prints it and exits with code 1.
BulkMissingFile ==
  /\ pc = "start"
  /\ ~IsHelp(argv)
  /\ ~IsKeyArg(argv[2])
  /\ IsBulkArg(argv[2])
  /\ disk = Missing
  /\ Halt("traceback", 1)

\* The first argument ends in .txt and no key is found in the file.
BulkNoKeys ==
  /\ pc = "start"
  /\ ~IsHelp(argv)
  /\ ~IsKeyArg(argv[2])
  /\ IsBulkArg(argv[2])
  /\ disk # Missing
  /\ ExtractKeys(disk) = <<>>
  /\ Halt("no keys", 1)

\* The first argument ends in .txt: the keys found in the file go to run_tests.
Bulk ==
  /\ pc = "start"
  /\ ~IsHelp(argv)
  /\ ~IsKeyArg(argv[2])
  /\ IsBulkArg(argv[2])
  /\ disk # Missing
  /\ ExtractKeys(disk) # <<>>
  /\ export_csv' = WantsCsv(argv)
  /\ TasksStartNext(ExtractKeys(disk), "new")
  /\ pc' = "submit"
  /\ UNCHANGED <<cli, clock, exit_code, console, files, queue, yielded>>

\* Any other first argument: the message is printed and the program runs off
\* its end, which is exit code 0.
InvalidExitCode == 0

InvalidInput ==
  /\ pc = "start"
  /\ ~IsHelp(argv)
  /\ ~IsKeyArg(argv[2])
  /\ ~IsBulkArg(argv[2])
  /\ Halt("invalid input", InvalidExitCode)

(***************************************************************************)
(* Initial states and specifications                                       *)
(***************************************************************************)

\* The text of a file written from segments: keys and stretches of noise.
RECURSIVE Concat(_)
Concat(segs) == IF segs = <<>> THEN <<>> ELSE Head(segs).text \o Concat(Tail(segs))

KeySeg(k) == [kind |-> "key", text |-> k]

NoiseSeg(n) == [kind |-> "noise", text |-> n]

\* A key whose tail holds the prefix again.
KeyInner == KeyPrefix \o KeyPrefix \o Rep("0", KeyTailLen - 4)

\* A file of the n first keys, one on a line, last key first.
KeyFile(n) ==
  [i \in 1..(2 * n) |-> IF i % 2 = 1 THEN KeySeg(Key(n - (i \div 2)))
                                      ELSE NoiseSeg(<<"\n">>)]

SegmentPool ==
  {KeySeg(k) : k \in {Key(1), Key(2), KeyInner}}
  \cup {NoiseSeg(n) : n \in { <<" ">>, <<"x">>, <<"A", "I">>, <<"z", "a">>, KeyPrefix }}

SeqsUpTo(S, n) == UNION {[1..m -> S] : m \in 0..n}

\* Nothing has run but the interpreter start.
Fresh ==
  /\ clock = 0
  /\ exit_code = -1
  /\ console = {}
  /\ files = {}
  /\ queue = <<>>
  /\ yielded = 0

\* The program is started on some command line, beside some file.
FirstArgs ==
  {Key(1), KeyNl, KeyShort, KeyLong, TxtArg, OtherArg, CsvFlag, HelpShort, HelpLong}

LaterArgs == {CsvFlag, Key(1), TxtArg}

CommandLines ==
  {<<Prog>>} \cup {<<Prog, a>> : a \in FirstArgs}
             \cup {<<Prog, a, b>> : a \in FirstArgs, b \in LaterArgs}
             \cup {<<Prog, a, CsvFlag, OtherArg>> : a \in {Key(1), TxtArg}}

FileSegments == {<<NoiseSeg(<<"x">>)>>, <<KeySeg(Key(1))>>, KeyFile(2)}

InitMain ==
  /\ argv \in CommandLines
  /\ \/ segments \in FileSegments /\ disk = Concat(segments)
     \/ segments = <<>> /\ disk = Missing
  /\ pc = "start"
  /\ export_csv = FALSE
  /\ TasksStart(<<>>, "new")
  /\ Fresh

NextMain ==
  \/ Help
  \/ SingleKey
  \/ BulkMissingFile
  \/ BulkNoKeys
  \/ Bulk
  \/ InvalidInput
  \/ Tick
  \/ \E t \in Tasks : Submit(t)
  \/ \E w \in Workers : Take(w)
  \/ \E t \in Tasks, o \in PoolOutcomes : Probe(t, o)
  \/ \E t \in Tasks : Finish(t)
  \/ \E t \in Tasks, os \in [1..Len(Catalog) -> PoolOutcomes] : Run(t, os)
  \/ AsCompleted
  \/ Return

SpecMain == InitMain /\ [][NextMain]_vars

\* test_key has just been called by __main__ on a key argument.
InitSweep ==
  /\ argv \in {<<Prog, k>> : k \in {Key(1), KeyZ}}
                \cup {<<Prog, k, CsvFlag>> : k \in {Key(1), KeyZ}}
  /\ segments = <<>>
  /\ disk = Missing
  /\ pc = "test_key"
  /\ export_csv = WantsCsv(argv)
  /\ TasksStart(<<argv[2]>>, "running")
  /\ Fresh

NextSweep ==
  \/ \E t \in Tasks, o \in Outcomes : Probe(t, o)
  \/ \E t \in Tasks : Finish(t)

Spec == InitSweep /\ [][NextSweep]_vars

\* run_tests has just been called on the keys of a file of 1 to MaxKeys keys.
InitPool ==
  /\ argv = <<Prog, TxtArg>>
  /\ segments \in {KeyFile(n) : n \in 1..MaxKeys}
  /\ disk = Concat(segments)
  /\ pc = "submit"
  /\ export_csv = WantsCsv(argv)
  /\ TasksStart(ExtractKeys(disk), "new")
  /\ Fresh

NextPool ==
  \/ \E t \in Tasks : Submit(t)
  \/ \E w \in Workers : Take(w)
  \/ \E t \in Tasks, os \in [1..Len(Catalog) -> PoolOutcomes] : Run(t, os)
  \/ AsCompleted
  \/ Return

\* The threads of the process are scheduled by the operating system, and every
\* GET ends in an answer, an error or its timeout: no step that can be taken is
\* put off for ever.
FairPool == WF_vars(NextPool)

SpecPool == InitPool /\ [][NextPool]_vars /\ FairPool

\* extract_keys_from_file is called on a text written from keys and noise.
InitExtract ==
  /\ argv \in {<<Prog, TxtArg>>, <<Prog, TxtArg, CsvFlag>>}
  /\ segments \in SeqsUpTo(SegmentPool, MaxSegments)
  /\ disk = Concat(segments)
  /\ pc = "start"
  /\ export_csv = FALSE
  /\ TasksStart(<<>>, "new")
  /\ Fresh

NextExtract ==
  \/ BulkNoKeys
  \/ Bulk

SpecExtract == InitExtract /\ [][NextExtract]_vars

(***************************************************************************)
(* Properties of the sweep (test_key), checked under Spec                  *)
(***************************************************************************)

Done(t) == future[t] = "finished"

Rows(t) == 1..Len(frame[t].table)

CountLabel(table, label) ==
  Cardinality({i \in 1..Len(table) : table[i][2] = label})

\* C1: whatever the calls come to, results holds one row per catalog entry
\* gone through, row i naming ENDPOINTS[i], and test_key ends with a row for
\* every entry of the catalog.
C1_OneResultPerEndpoint ==
  \A t \in Tasks :
    /\ Len(frame[t].results) = Len(frame[t].calls)
    /\ \A i \in 1..Len(frame[t].results) :
         /\ frame[t].results[i][2] = ENDPOINTS[i]
         /\ frame[t].results[i][1] = keys[t]
    /\ Done(t) => Len(frame[t].results) = NumEndpoints

C1_Witness ==
  /\ Done(1)
  /\ frame[1].calls[1].kind = "transport"
  /\ frame[1].calls[2].kind = "unparseable"
  /\ frame[1].results[NumEndpoints][3] = "OK"

TableOfSpec(status) ==
  CASE status = "OK" -> "ENABLED"
    [] status = "ZERO_RESULTS" -> "ENABLED"
    [] status = "REQUEST_DENIED" -> "DENIED"
    [] status = "OVER_QUERY_LIMIT" -> "RATE LIMITED"
    [] OTHER -> "DISABLED"

\* C7: a call that returns a JSON object is classified by its status as the
\* table says, a missing status as DISABLED; every probe has exactly one row,
\* and enabled_count counts the ENABLED rows.
C7_ClassificationTable ==
  \A t \in Tasks :
    /\ Len(frame[t].table) = Len(frame[t].calls)
    /\ \A i \in Rows(t) :
         frame[t].calls[i].kind = "object"
           => frame[t].table[i][2] = TableOfSpec(frame[t].calls[i].status)
    /\ frame[t].enabled_count = CountLabel(frame[t].table, "ENABLED")

C7_Witness ==
  /\ Done(1)
  /\ frame[1].calls[1].status = "ZERO_RESULTS"
  /\ frame[1].table[1][2] = "ENABLED"
  /\ frame[1].calls[2].status = "OVER_QUERY_LIMIT"
  /\ frame[1].table[2][2] = "RATE LIMITED"
  /\ frame[1].calls[3].status = "UNKNOWN_ERROR"
  /\ frame[1].table[3][2] = "DISABLED"
  /\ frame[1].enabled_count = 1

\* The sweep of task t in which the call for entry j fails and every other call
\* returns status OK.
OneFailure(t, j) ==
  /\ j \in 1..Len(frame[t].calls)
  /\ frame[t].calls[j].kind = "transport"
  /\ \A i \in 1..Len(frame[t].calls) :
       i # j => frame[t].calls[i].kind = "object" /\ frame[t].calls[i].status = "OK"

\* C8: every catalog entry is requested once, in order, whatever the calls come
\* to; and a sweep in which one call fails and the others return OK ends with
\* that one row ERROR, the others ENABLED, the key VALID and exit code 0.
C8_FailureIsLocal ==
  \A t \in Tasks :
    /\ Len(frame[t].calls) = frame[t].idx
    /\ \A i \in 1..Len(frame[t].calls) : frame[t].calls[i].name = ENDPOINTS[i]
    /\ \A j \in 1..NumEndpoints :
         Done(t) /\ OneFailure(t, j)
           => /\ Len(frame[t].table) = NumEndpoints
              /\ \A i \in Rows(t) :
                   frame[t].table[i][2] = IF i = j THEN "ERROR" ELSE "ENABLED"
              /\ summary[t] = <<"VALID">>
              /\ exit_code = 0

C8_Witness ==
  /\ Done(1)
  /\ OneFailure(1, 2)
  /\ frame[1].table[2][2] = "ERROR"
  /\ summary[1] = <<"VALID">>

\* C9: after every iteration the two counts add up to the entries gone through,
\* to the size of the catalog at the end; enabled_count is the number of
\* ENABLED rows; the key is VALID iff enabled_count > 0 and INVALID iff it is
\* 0, as when every call returns REQUEST_DENIED.
C9_CountsAndVerdict ==
  \A t \in Tasks :
    /\ frame[t].enabled_count + frame[t].disabled_count = Len(frame[t].calls)
    /\ frame[t].enabled_count = CountLabel(frame[t].table, "ENABLED")
    /\ Done(t)
         => /\ frame[t].enabled_count + frame[t].disabled_count = NumEndpoints
            /\ summary[t] = <<"VALID">> <=> frame[t].enabled_count > 0
            /\ summary[t] = <<"INVALID">> <=> frame[t].enabled_count = 0
    /\ Done(t) /\ (\A i \in 1..Len(frame[t].calls) :
                     frame[t].calls[i].status = "REQUEST_DENIED")
         => /\ frame[t].enabled_count = 0
            /\ \A i \in Rows(t) : frame[t].table[i][2] = "DENIED"
            /\ summary[t] = <<"INVALID">>

C9_Witness ==
  /\ Done(1)
  /\ \A i \in 1..NumEndpoints : frame[1].calls[i].status = "REQUEST_DENIED"
  /\ frame[1].enabled_count = 0
  /\ summary[1] = <<"INVALID">>

(***************************************************************************)
(* Properties of the pool (run_tests), checked under SpecPool              *)
(***************************************************************************)

InFlight == {t \in Tasks : future[t] = "running"}

\* No more than 3 sweeps are in flight, each on a worker of its own, and a key
\* past the third is in flight or done only when an earlier sweep is done.
BoundedPool ==
  /\ Cardinality(InFlight) <= 3
  /\ \A t \in InFlight : owner[t] \in 1..3
  /\ \A t, u \in InFlight : t # u => owner[t] # owner[u]
  /\ \A t \in Tasks : t > 3 /\ future[t] \in {"running", "finished"} => Finished # {}

\* A sweep in flight stays with its worker until it is done, and a sweep that
\* is done is not run again.
NeverSplit ==
  \A t \in Tasks :
    /\ future[t] = "running"
         => \/ future'[t] = "running" /\ owner'[t] = owner[t]
            \/ future'[t] = "finished"
    /\ future[t] = "finished" => future'[t] = "finished"

\* C4: at no point are more than 3 sweeps in flight; a key past the third
\* starts only after a sweep has completed; no sweep changes worker.
C4_AtMostThreeInFlight == [](BoundedPool) /\ [][NeverSplit]_vars

C4_Witness ==
  /\ Cardinality(InFlight) = 3
  /\ queue # <<>>
  /\ Finished = {}

\* C5: run_tests returns, and when it has returned every key of the list has
\* had its sweep and its one summary; no key ever has a second one.
C5_EveryKeyOnce ==
  /\ <>(pc = "exit")
  /\ [](pc = "exit" => \A t \in Tasks : Done(t) /\ Len(summary[t]) = 1)
  /\ [](\A t \in Tasks : Len(summary[t]) <= 1)

C5_Witness ==
  /\ pc = "exit"
  /\ Len(keys) > 3
  /\ \E t, u \in Tasks : summary[t] = <<"INVALID">> /\ summary[u] = <<"VALID">>

(***************************************************************************)
(* Properties of the command line (__main__), checked under SpecMain       *)
(***************************************************************************)

\* C3 as claimed: a single argument that is no key and does not end in .txt
\* (and asks for no help) is reported as invalid input, nothing is probed, and
\* the exit code is not 0.
C3_InvalidInputExitsNonZero ==
  ( /\ pc = "exit"
    /\ Len(argv) = 2
    /\ ~IsHelp(argv)
    /\ ~IsKeyArg(argv[2])
    /\ ~IsBulkArg(argv[2]) )
  => /\ "invalid input" \in console
     /\ keys = <<>>
     /\ exit_code # 0

\* Argument i names something to test: a key, or a file that holds keys.
Testable(i) ==
  \/ IsKeyArg(argv[i])
  \/ IsBulkArg(argv[i]) /\ disk # Missing /\ FindAll(disk) # <<>>

Evaluated == keys # <<>> /\ \A t \in Tasks : Done(t)

\* C6 as claimed: with --csv anywhere on the command line beside a key or a
\* file of keys, the keys are evaluated and a CSV file is written for each.
C6_CsvFlagAnyPosition ==
  ( /\ pc = "exit"
    /\ CsvFlag \in ToSet(argv)
    /\ \E i \in 2..Len(argv) : Testable(i) )
  => /\ Evaluated
     /\ \A t \in Tasks : csv_writes[t] = 1

\* C6 amended: --csv enables the export wherever it stands after the first
\* argument. When the first argument is a key or a file of keys and --csv
\* follows, every key is evaluated and its sweep writes its CSV file once,
\* under the name made of key[:8] and the second it is written in (keys that
\* agree on both write the same file). When --csv is the first argument the
\* input is rejected and nothing is evaluated or written, and without --csv
\* nothing is written.
C6_CsvFlagAfterFirst ==
  pc = "exit" =>
    /\ Len(argv) >= 2 /\ Testable(2) /\ CsvFlag \in ToSet(argv)
         => /\ Evaluated
            /\ \A t \in Tasks :
                 /\ csv_writes[t] = 1
                 /\ \E f \in files : f[1][1] = Prefix(keys[t], 8)
    /\ Len(argv) >= 2 /\ argv[2] = CsvFlag
         => "invalid input" \in console /\ keys = <<>> /\ files = {}
    /\ CsvFlag \notin ToSet(argv)
         => files = {} /\ \A t \in Tasks : csv_writes[t] = 0

C6_Witness ==
  /\ pc = "exit"
  /\ argv = <<Prog, TxtArg, CsvFlag, OtherArg>>
  /\ Len(keys) = 2
  /\ \A t \in Tasks : csv_writes[t] = 1
  /\ Cardinality(files) = 1

(***************************************************************************)
(* Properties of the extraction, checked under SpecExtract                 *)
(***************************************************************************)

Planted == {segments[i].text : i \in {j \in 1..Len(segments) : segments[j].kind = "key"}}

\* The keys extract_keys_from_file returned (none: the program has stopped).
Extracted == keys

Increasing(ks) == \A i, j \in 1..Len(ks) : i < j => StrLess(ks[i], ks[j])

Contains(s, pat) ==
  \E i \in 1..(Len(s) - Len(pat) + 1) : SubSeq(s, i, i + Len(pat) - 1) = pat

\* The stretches of noise of a text: its noise segments, neighbours joined.
RECURSIVE NoiseRuns(_, _)
NoiseRuns(segs, run) ==
  IF segs = <<>> THEN {run}
  ELSE IF Head(segs).kind = "noise"
       THEN NoiseRuns(Tail(segs), run \o Head(segs).text)
       ELSE {run} \cup NoiseRuns(Tail(segs), <<>>)

\* C10 as claimed: whatever the noise, the keys extracted are the keys
\* planted, each once, in increasing order.
C10_RoundTripAnyNoise ==
  pc # "start" => ToSet(Extracted) = Planted /\ Increasing(Extracted)

\* C10 amended: when no stretch of noise holds the key prefix AIza, the keys
\* extracted are the keys planted, each once, in increasing order.
C10_RoundTripCleanNoise ==
  ( /\ pc # "start"
    /\ \A run \in NoiseRuns(segments, <<>>) : ~Contains(run, KeyPrefix) )
  => ToSet(Extracted) = Planted /\ Increasing(Extracted)

C10_Witness ==
  /\ pc = "submit"
  /\ Len(segments) = 3
  /\ segments[1] = KeySeg(Key(2))
  /\ segments[2] = NoiseSeg(<<"x">>)
  /\ segments[3] = KeySeg(Key(2))
  /\ keys = <<Key(2)>>

=============================================================================
